---------------------------- MODULE Spec2Model ----------------------------
(***************************************************************************)
(* Model of the API-declaration grouping utility of                        *)
(* packages/kbn-docs-utils/src/api_docs/utils.ts: createEmptyScope,        *)
(* addApiDeclarationToScope, groupPluginApi and countScopeApi.             *)
(*                                                                         *)
(* JavaScript objects are modelled by reference.  ApiDeclaration objects   *)
(* live in objs (reference -> fields), ScopeApi objects live in heap       *)
(* (reference -> fields); reference 0 is undefined.  A ScopeApi holds      *)
(* references to declarations, as the arrays of the program do.            *)
(***************************************************************************)
EXTENDS Integers, Sequences, FiniteSets, TLC

VARIABLES
    objs,          \* ApiDeclaration objects: reference -> [type, lifecycle, label]
    heap,          \* ScopeApi objects: reference -> record of the eight fields
    declarations,  \* groupPluginApi: the argument of the running call
    scope,         \* groupPluginApi: the local const scope (a reference, 0 before line 46)
    idx,           \* groupPluginApi: position of forEach in declarations
    pc,            \* control: "idle" (no call running), "createEmptyScope", "forEach"
    results,       \* what the callers hold, per returned call: the input they passed,
                   \* the ScopeApi they got, and whether they have written to it since
    total,         \* the last countScopeApi call: [api, n], api = 0 before any call
    path,          \* getPluginForPath, getServiceForPath: the argument path, a text
    plugins,       \* getPluginForPath: the argument plugins, <<[directory]>>
    pluginDirectory, \* getServiceForPath: the argument pluginDirectory, a text
    plugin,        \* what getPluginForPath returned: <<>> before the call, then
                   \* <<i>> for plugins[i], <<0>> for undefined
    service        \* what getServiceForPath returned: <<>> before the call, then
                   \* <<[found, name]>>, found FALSE for undefined

pathVars == <<path, plugins, pluginDirectory, plugin, service>>

vars == <<objs, heap, declarations, scope, idx, pc, results, total, pathVars>>

----------------------------------------------------------------------------
(* Bounds *)

MaxLen == 3        \* longest input of a single groupPluginApi call (Spec)
MaxCalls == 2      \* number of groupPluginApi calls (SpecCalls)
MaxCallLen == 2    \* longest input of one of several calls (SpecCalls)
MaxBucket == 2     \* longest sequence of an arbitrary ScopeApi (SpecCount)
MaxPathDepth == 3  \* most segments of a path given to getPluginForPath (SpecPlugin)
MaxPlugins == 2    \* most plugins given to getPluginForPath (SpecPlugin)
MaxServiceDepth == 5  \* most segments of a path given to getServiceForPath (SpecService)
MaxDirDepth == 2   \* most segments of a plugin directory

----------------------------------------------------------------------------
(* Types *)

Undefined == 0

NoTag == "undefined"

\* Lifecycle.SETUP, Lifecycle.START
SETUP == "setup"
START == "start"

Lifecycle == {SETUP, START}

\* TypeKind.ClassKind ... TypeKind.ObjectKind, and a kind the switch does not name
ClassKind == "Class"
InterfaceKind == "Interface"
EnumKind == "Enum"
FunctionKind == "Function"
ObjectKind == "Object"
TypeKind == {ClassKind, InterfaceKind, EnumKind, FunctionKind, ObjectKind, "Type"}

SeqFields == {"classes", "interfaces", "enums", "functions", "objects", "misc"}

\* The tags of an ApiDeclaration the grouping reads, either of them possibly absent
Tags == [type : TypeKind \cup {NoTag}, lifecycle : Lifecycle \cup {NoTag}]

\* An ApiDeclaration object: its tags and its payload
ApiDeclaration(tags, label) ==
    [type |-> tags.type, lifecycle |-> tags.lifecycle, label |-> label]

----------------------------------------------------------------------------
(* Pure functions *)

RECURSIVE SeqsUpTo(_, _)
SeqsUpTo(S, n) ==
    IF n = 0 THEN {<<>>}
    ELSE LET shorter == SeqsUpTo(S, n - 1)
         IN  shorter \cup {Append(s, x) : s \in {t \in shorter : Len(t) = n - 1}, x \in S}

\* createEmptyScope with the objects sequence started with an empty slot
createEmptyScopeHole ==
    [setup |-> Undefined, start |-> Undefined,
     classes |-> <<>>, functions |-> <<>>, interfaces |-> <<>>,
     enums |-> <<>>, misc |-> <<>>, objects |-> <<Undefined>>]

createEmptyScope ==
    [setup |-> Undefined, start |-> Undefined,
     classes |-> <<>>, functions |-> <<>>, interfaces |-> <<>>,
     enums |-> <<>>, misc |-> <<>>, objects |-> <<>>]

\* The switch of addApiDeclarationToScope (lines 146-164) on its own
PushByType(declaration, s) ==
    CASE objs[declaration].type = ClassKind -> [s EXCEPT !.classes = Append(@, declaration)]
      [] objs[declaration].type = InterfaceKind -> [s EXCEPT !.interfaces = Append(@, declaration)]
      [] objs[declaration].type = EnumKind -> [s EXCEPT !.enums = Append(@, declaration)]
      [] objs[declaration].type = FunctionKind -> [s EXCEPT !.functions = Append(@, declaration)]
      [] objs[declaration].type = ObjectKind -> [s EXCEPT !.objects = Append(@, declaration)]
      [] OTHER -> [s EXCEPT !.misc = Append(@, declaration)]

\* addApiDeclarationToScope with the Start branch falling through to the switch
addApiDeclarationToScopeFallThrough(declaration, s) ==
    IF objs[declaration].lifecycle = SETUP THEN [s EXCEPT !.setup = declaration]
    ELSE IF objs[declaration].lifecycle = START
         THEN PushByType(declaration, [s EXCEPT !.start = declaration])
    ELSE PushByType(declaration, s)

\* addApiDeclarationToScope testing the type tag first, the lifecycle tag only by default
addApiDeclarationToScopeTypeFirst(declaration, s) ==
    IF objs[declaration].type \in {ClassKind, InterfaceKind, EnumKind, FunctionKind, ObjectKind}
    THEN PushByType(declaration, s)
    ELSE IF objs[declaration].lifecycle = SETUP THEN [s EXCEPT !.setup = declaration]
    ELSE IF objs[declaration].lifecycle = START THEN [s EXCEPT !.start = declaration]
    ELSE [s EXCEPT !.misc = Append(@, declaration)]

\* addApiDeclarationToScope keeping the first Setup and the first Start declaration
addApiDeclarationToScopeFirstWins(declaration, s) ==
    IF objs[declaration].lifecycle = SETUP
    THEN (IF s.setup = Undefined THEN [s EXCEPT !.setup = declaration] ELSE s)
    ELSE IF objs[declaration].lifecycle = START
    THEN (IF s.start = Undefined THEN [s EXCEPT !.start = declaration] ELSE s)
    ELSE PushByType(declaration, s)

\* addApiDeclarationToScope without the case of TypeKind.EnumKind
addApiDeclarationToScopeNoEnum(declaration, s) ==
    IF objs[declaration].lifecycle = SETUP THEN [s EXCEPT !.setup = declaration]
    ELSE IF objs[declaration].lifecycle = START THEN [s EXCEPT !.start = declaration]
    ELSE IF objs[declaration].type = EnumKind THEN [s EXCEPT !.misc = Append(@, declaration)]
    ELSE PushByType(declaration, s)

\* addApiDeclarationToScope with unshift in place of push for functions
addApiDeclarationToScopeUnshift(declaration, s) ==
    IF objs[declaration].lifecycle = SETUP THEN [s EXCEPT !.setup = declaration]
    ELSE IF objs[declaration].lifecycle = START THEN [s EXCEPT !.start = declaration]
    ELSE IF objs[declaration].type = FunctionKind
         THEN [s EXCEPT !.functions = <<declaration>> \o @]
    ELSE PushByType(declaration, s)

\* addApiDeclarationToScope assigning a one-element array in place of classes.push
addApiDeclarationToScopeReplace(declaration, s) ==
    IF objs[declaration].lifecycle = SETUP THEN [s EXCEPT !.setup = declaration]
    ELSE IF objs[declaration].lifecycle = START THEN [s EXCEPT !.start = declaration]
    ELSE IF objs[declaration].type = ClassKind THEN [s EXCEPT !.classes = <<declaration>>]
    ELSE PushByType(declaration, s)

\* addApiDeclarationToScope with the Setup branch also filing the declaration under misc
addApiDeclarationToScopeTwoWrites(declaration, s) ==
    IF objs[declaration].lifecycle = SETUP
    THEN [s EXCEPT !.setup = declaration, !.misc = Append(@, declaration)]
    ELSE IF objs[declaration].lifecycle = START THEN [s EXCEPT !.start = declaration]
    ELSE PushByType(declaration, s)

\* The ScopeApi after addApiDeclarationToScope(declaration, scope), s the ScopeApi before
addApiDeclarationToScope(declaration, s) ==
    IF objs[declaration].lifecycle = SETUP THEN [s EXCEPT !.setup = declaration]
    ELSE IF objs[declaration].lifecycle = START THEN [s EXCEPT !.start = declaration]
    ELSE PushByType(declaration, s)

\* countScopeApi without the term for enums
countScopeApiNoEnums(api) ==
    (IF api.setup # Undefined THEN 1 ELSE 0) +
    (IF api.start # Undefined THEN 1 ELSE 0) +
    Len(api.classes) +
    Len(api.interfaces) +
    Len(api.functions) +
    Len(api.objects) +
    Len(api.misc)

\* countScopeApi with the classes counted in place of the interfaces
countScopeApiClassesTwice(api) ==
    (IF api.setup # Undefined THEN 1 ELSE 0) +
    (IF api.start # Undefined THEN 1 ELSE 0) +
    Len(api.classes) +
    Len(api.classes) +
    Len(api.functions) +
    Len(api.objects) +
    Len(api.enums) +
    Len(api.misc)

\* countScopeApi with one term for the two slots together
countScopeApiEitherSlot(api) ==
    (IF api.setup # Undefined \/ api.start # Undefined THEN 1 ELSE 0) +
    Len(api.classes) +
    Len(api.interfaces) +
    Len(api.functions) +
    Len(api.objects) +
    Len(api.enums) +
    Len(api.misc)

countScopeApi(api) ==
    (IF api.setup # Undefined THEN 1 ELSE 0) +
    (IF api.start # Undefined THEN 1 ELSE 0) +
    Len(api.classes) +
    Len(api.interfaces) +
    Len(api.functions) +
    Len(api.objects) +
    Len(api.enums) +
    Len(api.misc)

\* groupPluginApi as a function of its input: createEmptyScope(), then
\* addApiDeclarationToScope for the first n declarations in order
RECURSIVE groupPluginApiUpTo(_, _)
groupPluginApiUpTo(ds, n) ==
    IF n = 0 THEN createEmptyScope
    ELSE addApiDeclarationToScope(ds[n], groupPluginApiUpTo(ds, n - 1))

groupPluginApi(ds) == groupPluginApiUpTo(ds, Len(ds))

----------------------------------------------------------------------------
(* Paths.  A text is a sequence of characters; "public", "server" and
   "common" stand for their letters, which occur nowhere else in a text. *)

Slash == "/"

\* The text of the absolute path with the given segments: "/" before each
RECURSIVE Render(_)
Render(segs) ==
    IF segs = <<>> THEN <<>> ELSE <<Slash>> \o Head(segs) \o Render(Tail(segs))

\* String.prototype.startsWith
startsWith(text, prefix) ==
    /\ Len(prefix) <= Len(text)
    /\ SubSeq(text, 1, Len(prefix)) = prefix

\* plugins.find((plugin) => path.startsWith(plugin.directory)): the first hit
getPluginForPath(p, ps) ==
    LET hits == {i \in DOMAIN ps : startsWith(p, ps[i].directory)}
    IN  IF hits = {} THEN Undefined ELSE CHOOSE i \in hits : \A j \in hits : i <= j

\* A regular expression element that matches the one character c
Literal(c) == [class |-> "literal", char |-> c]

\* escapeRegExp: every character of the text comes to match itself only
escapeRegExp(text) == [i \in DOMAIN text |-> Literal(text[i])]

\* The literal front of `${dir}\/folder\/([^\/]*)\/`, before the group
Front(dir, folder) == dir \o <<Literal(Slash), Literal(folder), Literal(Slash)>>

\* The front matches text from position i on, and a "/" closes the group later
MatchesAt(text, i, front) ==
    /\ i + Len(front) - 1 <= Len(text)
    /\ \A k \in DOMAIN front : text[i + k - 1] = front[k].char
    /\ \E j \in i + Len(front) .. Len(text) : text[j] = Slash

\* path.match(front ([^/]*) /): <<>> for null, else <<whole match, group 1>> of
\* the leftmost match; the group runs up to the next "/"
match(text, front) ==
    LET at == {i \in 1 .. Len(text) : MatchesAt(text, i, front)}
    IN  IF at = {} THEN <<>>
        ELSE LET i == CHOOSE x \in at : \A y \in at : x <= y
                 from == i + Len(front)
                 to == CHOOSE j \in from .. Len(text) :
                          /\ text[j] = Slash
                          /\ \A l \in from .. j - 1 : text[l] # Slash
             IN  <<SubSeq(text, i, to), SubSeq(text, from, to - 1)>>

getServiceForPath(p, directory) ==
    LET dir == escapeRegExp(directory)
        publicMatchGroups == match(p, Front(dir, "public"))
        serverMatchGroups == match(p, Front(dir, "server"))
        commonMatchGroups == match(p, Front(dir, "common"))
    IN  IF publicMatchGroups # <<>> /\ Len(publicMatchGroups) > 1
        THEN [found |-> TRUE, name |-> publicMatchGroups[2]]
        ELSE IF serverMatchGroups # <<>> /\ Len(serverMatchGroups) > 1
        THEN [found |-> TRUE, name |-> serverMatchGroups[2]]
        ELSE IF commonMatchGroups # <<>> /\ Len(commonMatchGroups) > 1
        THEN [found |-> TRUE, name |-> commonMatchGroups[2]]
        ELSE [found |-> FALSE, name |-> <<>>]

\* No call of getPluginForPath or getServiceForPath is modelled
NoPathCall ==
    /\ path = <<>>
    /\ plugins = <<>>
    /\ pluginDirectory = <<>>
    /\ plugin = <<>>
    /\ service = <<>>

----------------------------------------------------------------------------
(* groupPluginApi, one step per statement *)

\* line 46 with one ScopeApi made once and handed out to every call
GroupCreateScopeShared ==
    /\ pc = "createEmptyScope"
    /\ heap' = IF heap = <<>> THEN <<createEmptyScope>> ELSE heap
    /\ scope' = 1
    /\ idx' = 1
    /\ pc' = "forEach"
    /\ UNCHANGED <<objs, declarations, results, total>>
    /\ UNCHANGED pathVars

\* line 46: const scope = createEmptyScope(), a new object
GroupCreateScope ==
    /\ pc = "createEmptyScope"
    /\ heap' = Append(heap, createEmptyScope)
    /\ scope' = Len(heap) + 1
    /\ idx' = 1
    /\ pc' = "forEach"
    /\ UNCHANGED <<objs, declarations, results, total>>
    /\ UNCHANGED pathVars

\* The iteration done by taking the declarations off the front of the input
GroupForEachShift ==
    /\ pc = "forEach"
    /\ declarations # <<>>
    /\ heap' = [heap EXCEPT ![scope] = addApiDeclarationToScope(Head(declarations), heap[scope])]
    /\ declarations' = Tail(declarations)
    /\ UNCHANGED <<objs, scope, idx, pc, results, total>>
    /\ UNCHANGED pathVars

\* The iteration with a switch that throws on a type tag it does not name
GroupForEachThrow ==
    /\ pc = "forEach"
    /\ idx <= Len(declarations)
    /\ \/ objs[declarations[idx]].lifecycle \in Lifecycle
       \/ objs[declarations[idx]].type \in
              {ClassKind, InterfaceKind, EnumKind, FunctionKind, ObjectKind}
    /\ heap' = [heap EXCEPT ![scope] = addApiDeclarationToScope(declarations[idx], heap[scope])]
    /\ idx' = idx + 1
    /\ UNCHANGED <<objs, declarations, scope, pc, results, total>>
    /\ UNCHANGED pathVars

\* lines 48-50: one iteration of declarations.forEach
GroupForEach ==
    /\ pc = "forEach"
    /\ idx <= Len(declarations)
    /\ heap' = [heap EXCEPT ![scope] = addApiDeclarationToScope(declarations[idx], heap[scope])]
    /\ idx' = idx + 1
    /\ UNCHANGED <<objs, declarations, scope, pc, results, total>>
    /\ UNCHANGED pathVars

\* line 52: return scope, once forEach has passed the last element
GroupReturn ==
    /\ pc = "forEach"
    /\ idx > Len(declarations)
    /\ results' = Append(results,
                         [declarations |-> declarations, scope |-> scope, touched |-> FALSE])
    /\ pc' = "idle"
    /\ UNCHANGED <<objs, heap, declarations, scope, idx, total>>
    /\ UNCHANGED pathVars

\* countScopeApi(api) called on a ScopeApi that exists
CountScope ==
    /\ pc = "idle"
    /\ \E api \in DOMAIN heap :
          total' = [api |-> api, n |-> countScopeApi(heap[api])]
    /\ UNCHANGED <<objs, heap, declarations, scope, idx, pc, results>>
    /\ UNCHANGED pathVars

----------------------------------------------------------------------------
(* One call of groupPluginApi on any input of at most MaxLen declarations *)

Init ==
    /\ \E n \in 0 .. MaxLen :
          /\ \E tags \in [1 .. n -> Tags] :
                objs = [r \in 1 .. n |-> ApiDeclaration(tags[r], r)]
          /\ declarations = [r \in 1 .. n |-> r]
    /\ heap = <<>>
    /\ scope = Undefined
    /\ idx = 1
    /\ pc = "createEmptyScope"
    /\ results = <<>>
    /\ total = [api |-> Undefined, n |-> 0]
    /\ NoPathCall

Next ==
    \/ GroupCreateScope
    \/ GroupForEach
    \/ GroupReturn
    \/ CountScope

Spec == Init /\ [][Next]_vars

\* The call runs to completion: synchronous code, nothing else scheduled
SpecRun ==
    /\ Init
    /\ [][Next]_vars
    /\ WF_vars(GroupCreateScope)
    /\ WF_vars(GroupForEach)
    /\ WF_vars(GroupReturn)

----------------------------------------------------------------------------
(* countScopeApi on any ScopeApi of sequences of at most MaxBucket elements *)

InitCount ==
    /\ \E tags \in Tags : objs = <<ApiDeclaration(tags, 1)>>
    /\ \E api \in [setup : {Undefined, 1}, start : {Undefined, 1},
                    classes : SeqsUpTo({1}, MaxBucket), interfaces : SeqsUpTo({1}, MaxBucket),
                    enums : SeqsUpTo({1}, MaxBucket), functions : SeqsUpTo({1}, MaxBucket),
                    objects : SeqsUpTo({1}, MaxBucket), misc : SeqsUpTo({1}, MaxBucket)] :
          heap = <<api>>
    /\ declarations = <<>>
    /\ scope = Undefined
    /\ idx = 1
    /\ pc = "idle"
    /\ results = <<>>
    /\ total = [api |-> Undefined, n |-> 0]
    /\ NoPathCall

NextCount == CountScope

SpecCount == InitCount /\ [][NextCount]_vars

----------------------------------------------------------------------------
(* Up to MaxCalls calls of groupPluginApi, one after the other, on inputs of at
   most MaxCallLen declarations; between calls the callers write to the
   ScopeApis they were given *)

Pool ==
    <<ApiDeclaration([type |-> ClassKind, lifecycle |-> SETUP], 1),
      ApiDeclaration([type |-> FunctionKind, lifecycle |-> NoTag], 2)>>

\* A caller calls groupPluginApi(ds)
Call ==
    /\ pc = "idle"
    /\ Len(results) < MaxCalls
    /\ \E ds \in SeqsUpTo(DOMAIN objs, MaxCallLen) : declarations' = ds
    /\ scope' = Undefined
    /\ idx' = 1
    /\ pc' = "createEmptyScope"
    /\ UNCHANGED <<objs, heap, results, total>>
    /\ UNCHANGED pathVars

\* A caller appends a declaration to the misc sequence of a ScopeApi it was given
CallerPush ==
    /\ pc = "idle"
    /\ \E k \in DOMAIN results, d \in DOMAIN objs :
          /\ ~results[k].touched
          /\ heap' = [heap EXCEPT ![results[k].scope].misc = Append(@, d)]
          /\ results' = [results EXCEPT ![k].touched = TRUE]
    /\ UNCHANGED <<objs, declarations, scope, idx, pc, total>>
    /\ UNCHANGED pathVars

\* A caller overwrites the setup slot of a ScopeApi it was given
CallerAssign ==
    /\ pc = "idle"
    /\ \E k \in DOMAIN results, d \in DOMAIN objs :
          /\ ~results[k].touched
          /\ heap' = [heap EXCEPT ![results[k].scope].setup = d]
          /\ results' = [results EXCEPT ![k].touched = TRUE]
    /\ UNCHANGED <<objs, declarations, scope, idx, pc, total>>
    /\ UNCHANGED pathVars

InitCalls ==
    /\ objs = Pool
    /\ heap = <<>>
    /\ declarations = <<>>
    /\ scope = Undefined
    /\ idx = 1
    /\ pc = "idle"
    /\ results = <<>>
    /\ total = [api |-> Undefined, n |-> 0]
    /\ NoPathCall

NextCalls ==
    \/ Call
    \/ GroupCreateScope
    \/ GroupForEach
    \/ GroupReturn
    \/ CallerPush
    \/ CallerAssign

SpecCalls == InitCalls /\ [][NextCalls]_vars

----------------------------------------------------------------------------
(* getPluginForPath on a path of at most MaxPathDepth segments and at most
   MaxPlugins plugins, directory names with and without a common prefix *)

PluginNames == {<<"a">>, <<"a", "b">>, <<"b">>}

NoGroupCall ==
    /\ objs = <<>>
    /\ heap = <<>>
    /\ declarations = <<>>
    /\ scope = Undefined
    /\ idx = 1
    /\ pc = "idle"
    /\ results = <<>>
    /\ total = [api |-> Undefined, n |-> 0]

GetPluginForPath ==
    /\ plugin = <<>>
    /\ plugin' = <<getPluginForPath(path, plugins)>>
    /\ UNCHANGED <<objs, heap, declarations, scope, idx, pc, results, total>>
    /\ UNCHANGED <<path, plugins, pluginDirectory, service>>

InitPlugin ==
    /\ NoGroupCall
    /\ \E segs \in SeqsUpTo(PluginNames, MaxPathDepth) \ {<<>>} : path = Render(segs)
    /\ \E dirs \in SeqsUpTo(SeqsUpTo(PluginNames, MaxDirDepth) \ {<<>>}, MaxPlugins) :
          plugins = [i \in DOMAIN dirs |-> [directory |-> Render(dirs[i])]]
    /\ pluginDirectory = <<>>
    /\ plugin = <<>>
    /\ service = <<>>

NextPlugin == GetPluginForPath

SpecPlugin == InitPlugin /\ [][NextPlugin]_vars

----------------------------------------------------------------------------
(* getServiceForPath on a path of at most MaxServiceDepth segments and a
   plugin directory of at most MaxDirDepth segments *)

ServiceNames == {<<"a">>, <<"public">>, <<"server">>, <<"common">>}

GetServiceForPath ==
    /\ service = <<>>
    /\ service' = <<getServiceForPath(path, pluginDirectory)>>
    /\ UNCHANGED <<objs, heap, declarations, scope, idx, pc, results, total>>
    /\ UNCHANGED <<path, plugins, pluginDirectory, plugin>>

InitService ==
    /\ NoGroupCall
    /\ \E segs \in SeqsUpTo(ServiceNames, MaxServiceDepth) \ {<<>>} : path = Render(segs)
    /\ \E segs \in SeqsUpTo(ServiceNames, MaxDirDepth) \ {<<>>} :
          pluginDirectory = Render(segs)
    /\ plugins = <<>>
    /\ plugin = <<>>
    /\ service = <<>>

NextService == GetServiceForPath

SpecService == InitService /\ [][NextService]_vars

----------------------------------------------------------------------------
(* Vocabulary of the properties *)

\* The ScopeApi and the input of the k-th returned call
ResultOf(k) == heap[results[k].scope]
InputOf(k) == results[k].declarations

\* countScopeApi has been applied to the result of the k-th returned call
Counted(k) == total.api = results[k].scope

InSeq(s, d) == \E j \in DOMAIN s : s[j] = d

TimesIn(s, d) == Cardinality({j \in DOMAIN s : s[j] = d})

\* How often declaration d occurs in the two slots and six sequences of api
Occurrences(api, d) ==
    (IF api.setup = d THEN 1 ELSE 0) + (IF api.start = d THEN 1 ELSE 0) +
    TimesIn(api.classes, d) + TimesIn(api.interfaces, d) + TimesIn(api.enums, d) +
    TimesIn(api.functions, d) + TimesIn(api.objects, d) + TimesIn(api.misc, d)

HasLifecycle(d) == objs[d].lifecycle \in Lifecycle

\* ds[i] carries a lifecycle tag that a later declaration of ds carries too
Superseded(ds, i) ==
    /\ HasLifecycle(ds[i])
    /\ \E j \in DOMAIN ds : j > i /\ objs[ds[j]].lifecycle = objs[ds[i]].lifecycle

RepeatedLifecycle(ds) == \E i \in DOMAIN ds : Superseded(ds, i)

\* The last declaration of ds tagged with lifecycle tag, Undefined when there is none
LastTagged(ds, tag) ==
    LET at == {i \in DOMAIN ds : objs[ds[i]].lifecycle = tag}
    IN  IF at = {} THEN Undefined ELSE ds[CHOOSE i \in at : \A j \in at : j <= i]

----------------------------------------------------------------------------
(* C1 *)

\* C1 (as stated): countScopeApi(groupPluginApi(declarations)) equals the length
\* of declarations, for every input.
C1_CountEqualsLength ==
    \A k \in DOMAIN results : Counted(k) => total.n = Len(InputOf(k))

\* C1 (amended): countScopeApi(groupPluginApi(declarations)) never exceeds the
\* length of declarations, and equals it exactly when neither Setup nor Start
\* tags more than one declaration of the input.
C1_CountEqualsLengthUnlessRepeated ==
    \A k \in DOMAIN results :
        Counted(k) =>
            /\ total.n <= Len(InputOf(k))
            /\ total.n = Len(InputOf(k)) <=> ~RepeatedLifecycle(InputOf(k))

C1_Witness ==
    \E k \in DOMAIN results :
        /\ Counted(k)
        /\ RepeatedLifecycle(InputOf(k))
        /\ total.n < Len(InputOf(k))

----------------------------------------------------------------------------
(* C2 *)

\* C2 (as stated): in the returned ScopeApi every declaration of the input is in
\* exactly one place among the two slots and the six sequences.
C2_ExactlyOnePlace ==
    \A k \in DOMAIN results :
        \A i \in DOMAIN InputOf(k) : Occurrences(ResultOf(k), InputOf(k)[i]) = 1

\* C2 (amended): in the returned ScopeApi every declaration of the input is in
\* at most one place, and in exactly one unless a later declaration of the input
\* carries the same lifecycle tag (Setup or Start); then it is in none.
C2_ExactlyOnePlaceUnlessSuperseded ==
    \A k \in DOMAIN results :
        \A i \in DOMAIN InputOf(k) :
            Occurrences(ResultOf(k), InputOf(k)[i]) =
                IF Superseded(InputOf(k), i) THEN 0 ELSE 1

C2_Witness ==
    \E k \in DOMAIN results :
        \E i, j \in DOMAIN InputOf(k) :
            /\ Superseded(InputOf(k), i)
            /\ Occurrences(ResultOf(k), InputOf(k)[i]) = 0
            /\ ~HasLifecycle(InputOf(k)[j])
            /\ Occurrences(ResultOf(k), InputOf(k)[j]) = 1

----------------------------------------------------------------------------
(* C3 *)

\* C3: a declaration tagged Setup or Start is in none of the six sequences of any
\* ScopeApi, at any point of the grouping, whatever its type tag.
C3_LifecycleBeforeType ==
    \A a \in DOMAIN heap :
        \A f \in SeqFields :
            \A j \in DOMAIN heap[a][f] : ~HasLifecycle(heap[a][f][j])

C3_Witness ==
    \E k \in DOMAIN results :
        /\ ResultOf(k).setup # Undefined
        /\ objs[ResultOf(k).setup].type = ClassKind
        /\ ResultOf(k).start # Undefined
        /\ objs[ResultOf(k).start].type = EnumKind

----------------------------------------------------------------------------
(* C4 *)

\* C4: the setup slot of the returned ScopeApi holds the last declaration of the
\* input tagged Setup, the earlier ones tagged Setup are nowhere in the result;
\* the same for Start and the start slot.
C4_LastLifecycleWins ==
    \A k \in DOMAIN results :
        /\ ResultOf(k).setup = LastTagged(InputOf(k), SETUP)
        /\ ResultOf(k).start = LastTagged(InputOf(k), START)
        /\ \A i \in DOMAIN InputOf(k) :
              Superseded(InputOf(k), i) => Occurrences(ResultOf(k), InputOf(k)[i]) = 0

C4_Witness ==
    \E k \in DOMAIN results :
        \E i, j \in DOMAIN InputOf(k) :
            /\ i < j
            /\ objs[InputOf(k)[i]].lifecycle = SETUP
            /\ objs[InputOf(k)[j]].lifecycle = SETUP
            /\ ResultOf(k).setup = InputOf(k)[j]

----------------------------------------------------------------------------
(* C5 *)

\* The sequences of api that hold declaration d
HeldIn(api, d) == {f \in SeqFields : InSeq(api[f], d)}

\* C5: a declaration tagged neither Setup nor Start is in the sequence of its
\* type tag (Class: classes, Interface: interfaces, Enum: enums, Function:
\* functions, Object: objects, any other or no type tag: misc) and in no other.
C5_TypeBucket ==
    \A k \in DOMAIN results :
        \A i \in DOMAIN InputOf(k) :
            LET d == InputOf(k)[i]
                t == objs[d].type
            IN  ~HasLifecycle(d) =>
                    HeldIn(ResultOf(k), d) =
                        IF t = "Class" THEN {"classes"}
                        ELSE IF t = "Interface" THEN {"interfaces"}
                        ELSE IF t = "Enum" THEN {"enums"}
                        ELSE IF t = "Function" THEN {"functions"}
                        ELSE IF t = "Object" THEN {"objects"}
                        ELSE {"misc"}

C5_Witness ==
    \E k \in DOMAIN results :
        /\ Len(ResultOf(k).enums) = 1
        /\ Len(ResultOf(k).misc) = 2
        /\ \E j \in DOMAIN ResultOf(k).misc : objs[ResultOf(k).misc[j]].type = NoTag
        /\ \E j \in DOMAIN ResultOf(k).misc : objs[ResultOf(k).misc[j]].type = "Type"

----------------------------------------------------------------------------
(* C6 *)

\* The subsequence of ds made of the declarations that s holds
Restricted(ds, s) ==
    LET Held(d) == InSeq(s, d)
    IN  SelectSeq(ds, Held)

\* C6: every sequence of the returned ScopeApi is the subsequence of the input
\* made of the declarations it holds: same declarations, in input order.
C6_StablePartition ==
    \A k \in DOMAIN results :
        \A f \in SeqFields : ResultOf(k)[f] = Restricted(InputOf(k), ResultOf(k)[f])

C6_Witness ==
    \E k \in DOMAIN results :
        /\ Len(ResultOf(k).functions) >= 2
        /\ Len(ResultOf(k).classes) >= 1
        /\ objs[InputOf(k)[2]].type = ClassKind

----------------------------------------------------------------------------
(* C7 *)

EmptyScope(api) ==
    /\ api.classes = <<>> /\ api.interfaces = <<>> /\ api.enums = <<>>
    /\ api.functions = <<>> /\ api.objects = <<>> /\ api.misc = <<>>
    /\ api.setup = Undefined /\ api.start = Undefined

\* C7: the ScopeApi createEmptyScope() has just returned has six empty sequences
\* and both slots unset, and so has the ScopeApi groupPluginApi([]) returns.
C7_EmptyScope ==
    /\ (pc = "forEach" /\ idx = 1) => EmptyScope(heap[scope])
    /\ \A k \in DOMAIN results : InputOf(k) = <<>> => EmptyScope(ResultOf(k))

C7_Witness ==
    \E k \in DOMAIN results : InputOf(k) = <<>> /\ EmptyScope(ResultOf(k))

----------------------------------------------------------------------------
(* C8 *)

\* C8: countScopeApi(api) is 1 for a present setup slot, plus 1 for a present
\* start slot, plus the lengths of the six sequences, each counted once; the
\* call leaves every ScopeApi and every declaration as it was.
C8_CountScopeApi ==
    /\ [](total.api # Undefined =>
            total.n = (IF heap[total.api].setup # Undefined THEN 1 ELSE 0)
                      + (IF heap[total.api].start # Undefined THEN 1 ELSE 0)
                      + Cardinality(UNION {{<<f, j>> : j \in DOMAIN heap[total.api][f]} :
                                              f \in SeqFields}))
    /\ [][total' # total => heap' = heap /\ objs' = objs]_vars

C8_Witness ==
    /\ total.api # Undefined
    /\ heap[total.api].setup # Undefined
    /\ heap[total.api].start = Undefined
    /\ Len(heap[total.api].enums) = 2
    /\ Len(heap[total.api].interfaces) = 1
    /\ Len(heap[total.api].classes) = 0
    /\ total.n >= 4

----------------------------------------------------------------------------
(* C9 *)

DeclarationsOf(api) ==
    ({api.setup, api.start} \ {Undefined}) \cup
    UNION {{api[f][j] : j \in DOMAIN api[f]} : f \in SeqFields}

\* C9: while a call of groupPluginApi runs, the input sequence and every
\* declaration object stay as they are; the result holds declarations of the
\* input only.
C9_InputUnchanged ==
    /\ [][pc # "idle" => declarations' = declarations /\ objs' = objs]_vars
    /\ [](\A k \in DOMAIN results :
            DeclarationsOf(ResultOf(k)) \subseteq {InputOf(k)[i] : i \in DOMAIN InputOf(k)})

C9_Witness ==
    \E k \in DOMAIN results :
        /\ Len(InputOf(k)) >= 2
        /\ Cardinality(DeclarationsOf(ResultOf(k))) >= 2

----------------------------------------------------------------------------
(* C10 *)

\* The returned calls whose ScopeApi a step changes
Changed == {k \in DOMAIN results : heap'[results[k].scope] # heap[results[k].scope]}

\* C10: a running call works on a ScopeApi no caller holds and changes none that
\* a caller holds; what a call returns is determined by its own input; a
\* caller's write to one result changes no other result.
C10_CallsDoNotInteract ==
    /\ [](pc = "forEach" => \A k \in DOMAIN results : results[k].scope # scope)
    /\ [](\A k \in DOMAIN results :
            ~results[k].touched => ResultOf(k) = groupPluginApi(InputOf(k)))
    /\ [][(pc # "idle" \/ pc' # "idle") => Changed = {}]_vars
    /\ [][Cardinality(Changed) <= 1]_vars

C10_Witness ==
    /\ Len(results) >= 2
    /\ results[1].touched
    /\ ~results[2].touched
    /\ InputOf(1) = InputOf(2)
    /\ InputOf(1) # <<>>
    /\ ResultOf(1) # ResultOf(2)

----------------------------------------------------------------------------
(* C11 *)

\* C11: every call of groupPluginApi returns; forEach moves one position at a
\* time and the call returns from the position after the last declaration, so
\* each declaration is visited once; no state of a running call is stuck.
C11_Total ==
    /\ <>(pc = "idle")
    /\ [](pc # "idle" => ENABLED (GroupCreateScope \/ GroupForEach \/ GroupReturn))
    /\ [][idx' = idx \/ (idx' = idx + 1 /\ idx \in DOMAIN declarations)]_vars
    /\ [](\A k \in DOMAIN results : idx = Len(InputOf(k)) + 1)

C11_Witness ==
    \E k \in DOMAIN results :
        \E h, i, j \in DOMAIN InputOf(k) :
            /\ i < j
            /\ objs[InputOf(k)[i]].lifecycle = SETUP
            /\ objs[InputOf(k)[j]].lifecycle = SETUP
            /\ objs[InputOf(k)[h]].lifecycle = NoTag
            /\ objs[InputOf(k)[h]].type = NoTag

----------------------------------------------------------------------------
(* C14 *)

\* A step is one addApiDeclarationToScope(declarations[idx], scope)
AddStep == pc = "forEach" /\ idx' = idx + 1

\* C14: one addApiDeclarationToScope(declaration, scope) writes one field of
\* scope and leaves the other seven as they were: it sets setup to the
\* declaration, or start, or it appends the declaration to one sequence, whose
\* earlier elements stay in place; no other ScopeApi changes.
C14_OneFieldWritten ==
    [][AddStep =>
        LET old == heap[scope]
            new == heap'[scope]
            d == declarations[idx]
        IN  /\ \/ new = [old EXCEPT !.setup = d]
               \/ new = [old EXCEPT !.start = d]
               \/ \E f \in SeqFields : new = [old EXCEPT ![f] = Append(old[f], d)]
            /\ \A a \in DOMAIN heap : a # scope => heap'[a] = heap[a]]_vars

C14_Witness ==
    /\ pc = "forEach"
    /\ idx = 4
    /\ objs[1].lifecycle = SETUP
    /\ heap[scope].setup = 2
    /\ heap[scope].misc = <<3>>

----------------------------------------------------------------------------
(* C15 *)

Untagged(ds) == {i \in DOMAIN ds : ~HasLifecycle(ds[i])}

Tagged(ds, tag) == {i \in DOMAIN ds : objs[ds[i]].lifecycle = tag}

\* C15: countScopeApi(groupPluginApi(declarations)) is the number of
\* declarations tagged neither Setup nor Start, plus 1 if some declaration is
\* tagged Setup, plus 1 if some is tagged Start; it falls short of the input
\* length by the number of superseded declarations.
C15_ExactCount ==
    \A k \in DOMAIN results :
        Counted(k) =>
            /\ total.n = Cardinality(Untagged(InputOf(k)))
                         + (IF Tagged(InputOf(k), SETUP) # {} THEN 1 ELSE 0)
                         + (IF Tagged(InputOf(k), START) # {} THEN 1 ELSE 0)
            /\ Len(InputOf(k)) - total.n =
                   Cardinality({i \in DOMAIN InputOf(k) : Superseded(InputOf(k), i)})

C15_Witness ==
    \E k \in DOMAIN results :
        /\ Counted(k)
        /\ Cardinality(Tagged(InputOf(k), START)) = 2
        /\ Cardinality(Untagged(InputOf(k))) = 1
        /\ total.n = 2

----------------------------------------------------------------------------
(* C16 *)

\* C16: over the addApiDeclarationToScope calls on a scope that started empty,
\* countScopeApi(scope) grows by 1, or by 0 when the call overwrites a slot
\* that was set; no sequence gets shorter and no set slot gets unset.
C16_CountMonotonic ==
    [][AddStep =>
        LET old == heap[scope]
            new == heap'[scope]
            d == declarations[idx]
        IN  /\ countScopeApi(new) - countScopeApi(old) \in {0, 1}
            /\ countScopeApi(new) = countScopeApi(old) =>
                   \/ objs[d].lifecycle = SETUP /\ old.setup # Undefined
                   \/ objs[d].lifecycle = START /\ old.start # Undefined
            /\ \A f \in SeqFields : Len(new[f]) >= Len(old[f])
            /\ old.setup # Undefined => new.setup # Undefined
            /\ old.start # Undefined => new.start # Undefined]_vars

C16_Witness ==
    /\ pc = "forEach"
    /\ idx = 4
    /\ objs[1].lifecycle = START
    /\ objs[2].lifecycle = START
    /\ objs[3].type = ClassKind
    /\ countScopeApi(heap[scope]) = 2

----------------------------------------------------------------------------
(* C12, C13: directories and segments *)

\* text.split("/"): the segments of a text, the first one empty for an absolute path
RECURSIVE Split(_)
Split(text) ==
    IF text = <<>> THEN <<<<>>>>
    ELSE IF Head(text) = Slash THEN <<<<>>>> \o Split(Tail(text))
    ELSE LET rest == Split(Tail(text))
         IN  <<<<Head(text)>> \o Head(rest)>> \o Tail(rest)

\* The path lies in the directory: the directory's segments lead the path's
InDirectory(p, directory) ==
    LET ps == Split(p)
        ds == Split(directory)
    IN  Len(ds) <= Len(ps) /\ SubSeq(ps, 1, Len(ds)) = ds

\* C12: getPluginForPath(path, plugins) returns a plugin of the list whose
\* directory holds the path, and undefined when no listed directory holds it.
C12_PluginOfPath ==
    plugin # <<>> =>
        IF plugin[1] = Undefined
        THEN \A i \in DOMAIN plugins : ~InDirectory(path, plugins[i].directory)
        ELSE InDirectory(path, plugins[plugin[1]].directory)

ServiceFolders == {<<"public">>, <<"server">>, <<"common">>}

\* C13: for a file under the public, server or common folder of the plugin
\* directory, getServiceForPath returns undefined when the file is directly in
\* that folder, and else the name of the first folder under it.
C13_ServiceOfPath ==
    service # <<>> =>
        LET ps == Split(path)
            n == Len(Split(pluginDirectory))
        IN  (/\ InDirectory(path, pluginDirectory)
             /\ Len(ps) >= n + 2
             /\ ps[n + 1] \in ServiceFolders)
            => IF Len(ps) = n + 2
               THEN ~service[1].found
               ELSE service[1].found /\ service[1].name = ps[n + 2]

=============================================================================
